---- MODULE Spec2Model ----
(***************************************************************************)
(* The pipeline execution engine of backend/executor/engine.py:            *)
(* PipelineExecutor.execute for one run record, with the node handlers,    *)
(* the retry loop, the run/node records and the scratch files on disk.     *)
(*                                                                         *)
(* Collaborators (the record store, the analytical engine, connectors and  *)
(* adapters) are modelled by the outcomes the engine can observe of them:  *)
(* a handler attempt either returns or raises, and leaves behind the files *)
(* its code had created up to that point.  The record store's own calls    *)
(* (query, add, commit) and the timestamp arithmetic are taken to succeed. *)
(*                                                                         *)
(* Around it: the task execute_pipeline_run of backend/tasks/celery_app.py *)
(* (SpecTask), a second invocation of execute on the same machine          *)
(* (SpecPair), and DuckDBEngine.export_to_file with the step compiler      *)
(* _step_to_sql of backend/services/duckdb_engine.py (SpecExport).         *)
(***************************************************************************)
EXTENDS Integers, Sequences, FiniteSets, TLC

\* ------------------------------------------------------------------ bounds
MaxNodes == 2
MaxEdges == 2
\* the rows of a relation a transform is applied to
MaxRows == 3

\* ------------------------------------------------------- program constants
\* a retry loop that runs once too often
max_retries_one_more == 3 + 1

\* self._max_retries and self._retry_delay
max_retries == 3
retry_delay == 2
\* config.get("min_score", 50)
MinScoreDefault == 50
\* NodeRunLog.attempt_no column default
AttemptDefault == 1
\* the path "" that pass-through handlers register when they have no input
EmptyPath == 0
\* the configured path of a local-file connector: it exists before the run
SourcePath == 1
\* temporary files get fresh names, numbered from here
FirstTmp == 2
\* an id that is no node's id (a dangling edge end)
NoNode == 0

\* ------------------------------------------------------------------ inputs
NodeTypes ==
    { "file_input", "connector_input", "transform", "validation",
      "file_output", "invoke_http", "webhook_send", "db_insert", "export",
      "merge", "conditional_branch", "unknown" }

ConnectorTypes == { "csv", "http" }
MinScores == { MinScoreDefault, 90 }
Scores == { 40, 90 }
\* the row counts a handler may report
RowCounts == { 0, 1 }

\* One node definition: id, type and the part of data.config the handlers
\* read.  `score` is what data_quality_score computes on the node's first
\* upstream file; it is the same on every attempt because upstream outputs
\* do not change while a node is retried.
Kind(t, c, m, s) == [type |-> t, ctype |-> c, min_score |-> m, score |-> s]

NodeDef(i, k) ==
    [id |-> i, type |-> k.type, ctype |-> k.ctype, min_score |-> k.min_score,
     score |-> k.score]

NodeKinds ==
    { Kind(t, "csv", MinScoreDefault, 90) :
          t \in NodeTypes \ { "connector_input", "validation" } }
    \cup { Kind("connector_input", c, MinScoreDefault, 90) : c \in ConnectorTypes }
    \cup { Kind("validation", "csv", m, s) : m \in MinScores, s \in Scores }

SeqsUpTo(S, n) == UNION { [1 .. k -> S] : k \in 0 .. n }

PipelineRunStatus == { "pending", "running", "success", "failed", "cancelled" }

\* node_outputs holds Unset for a node id that is not a key of the dict
Unset == -1
\* no exception in flight, no error recorded
NoError == "none"
\* no adapter result was returned to the handler
NoReport == "none"
\* execute is called directly, not by the task
NoTask == "none"
\* no relation: no view has been created, nothing has been written
NoRelation == [columns |-> << >>, types |-> << >>, rows |-> << >>, none |-> TRUE]
\* there is no second invocation
NoPeer == [pc |-> "absent"]

VARIABLES
    nodes,          \* definition["nodes"]
    edges,          \* definition["edges"], each <<source, target>>
    pipelineFound,  \* whether the run's pipeline row exists
    status,         \* run.status
    error_message,  \* run.error_message
    rows_processed, \* run.rows_processed
    pc,             \* where execute is
    exception,      \* the exception raised inside the try block
    result,         \* the dict execute returns, by its "status"
    order,          \* the list _topological_sort returned
    pos,            \* index in order of the node being executed
    attempt,        \* the retry loop's variable
    success,        \* the retry loop's flag
    last_error,     \* the retry loop's last error text
    total_rows,     \* the accumulated row count
    node_logs,      \* the NodeRunLog rows of the run, in creation order
    node_outputs,   \* self._node_outputs: node id -> path, Unset if absent
    disk,           \* paths that exist on disk
    nextTmp,        \* the next fresh temporary file name
    sessions,       \* the analytical-engine sessions open and not in use
    calls,          \* history: the handler invocations, in order
    sleeps,         \* history: the time.sleep durations, in order
    writes,         \* history: the engine's writes of run.status, <<old, new>>
    created,        \* history: the files handler attempts created
    external,       \* history: whether an external actor changed run.status
    task,           \* where the task execute_pipeline_run is
    task_error,     \* the exception the task is handling or has raised
    published,      \* the statuses published on the run's channel, in order
    other,          \* a second invocation of execute, while it is not running
    steps,          \* export_to_file: the steps argument
    step_no,        \* export_to_file: the steps applied so far
    views,          \* export_to_file: the relations of _input, _step_0, ...
    statements,     \* history: what _step_to_sql gave for each step
    export_pc,      \* where export_to_file is
    export_error,   \* the exception export_to_file raised
    exported        \* the relation COPY wrote to output_path

vars ==
    << nodes, edges, pipelineFound, status, error_message, rows_processed, pc,
       exception, result, order, pos, attempt, success, last_error, total_rows,
       node_logs, node_outputs, disk, nextTmp, sessions, calls, sleeps, writes,
       created, external, task, task_error, published, other, steps, step_no,
       views, statements, export_pc, export_error, exported >>

\* what lies outside one invocation of execute
task_vars == << task, task_error, published >>
export_vars ==
    << steps, step_no, views, statements, export_pc, export_error, exported >>
outer_vars == << task_vars, other, export_vars >>

\* ------------------------------------------------------ _topological_sort
Ids(ns) == { ns[i].id : i \in 1 .. Len(ns) }

\* dict keys keep the order of first insertion
RECURSIVE KeyOrder(_, _)
KeyOrder(ns, seen) ==
    IF ns = << >> THEN << >>
    ELSE IF Head(ns).id \in seen THEN KeyOrder(Tail(ns), seen)
    ELSE << Head(ns).id >> \o KeyOrder(Tail(ns), seen \cup { Head(ns).id })

\* node_map = {n["id"]: n for n in nodes}: the last definition of an id wins
node_map(ns, nid) ==
    ns[CHOOSE i \in 1 .. Len(ns) :
          /\ ns[i].id = nid
          /\ \A j \in 1 .. Len(ns) : ns[j].id = nid => j <= i]

RECURSIVE adjacency(_, _)
adjacency(es, nid) ==
    IF es = << >> THEN << >>
    ELSE IF Head(es)[1] = nid THEN << Head(es)[2] >> \o adjacency(Tail(es), nid)
    ELSE adjacency(Tail(es), nid)

in_degree(ns, es) ==
    [nid \in Ids(ns) |-> Cardinality({ k \in 1 .. Len(es) : es[k][2] = nid })]

\* the inner loop of Kahn's algorithm over the neighbours of the popped node;
\* in_degree[neighbor] raises KeyError for a neighbour that is no node
RECURSIVE Relax(_, _, _)
Relax(adj, deg, queue) ==
    IF adj = << >> THEN [ok |-> TRUE, deg |-> deg, queue |-> queue]
    ELSE IF Head(adj) \notin DOMAIN deg
         THEN [ok |-> FALSE, deg |-> deg, queue |-> queue]
    ELSE LET d == deg[Head(adj)] - 1
         IN  Relax(Tail(adj), [deg EXCEPT ![Head(adj)] = d],
                   IF d = 0 THEN Append(queue, Head(adj)) ELSE queue)

RECURSIVE Kahn(_, _, _, _, _)
Kahn(ns, es, queue, deg, out) ==
    IF queue = << >> THEN [ok |-> TRUE, order |-> out]
    ELSE LET nid == Head(queue)
             r == Relax(adjacency(es, nid), deg, Tail(queue))
         IN  IF r.ok
             THEN Kahn(ns, es, r.queue, r.deg, Append(out, node_map(ns, nid)))
             ELSE [ok |-> FALSE, order |-> << >>]

\* a sort that hands the nodes back in the order of the node list
_topological_sort_list_order(ns, es) == [ok |-> TRUE, order |-> ns]

\* ok = FALSE stands for the KeyError the code raises on a dangling edge end
_topological_sort(ns, es) ==
    IF \E k \in 1 .. Len(es) : es[k][1] \notin Ids(ns)
    THEN [ok |-> FALSE, order |-> << >>]
    ELSE LET deg == in_degree(ns, es)
         IN  Kahn(ns, es, SelectSeq(KeyOrder(ns, {}), LAMBDA nid : deg[nid] = 0),
                  deg, << >>)

\* ------------------------------------------------------- _get_input_files
\* a resolution that lists the upstream paths from the last edge to the first
RECURSIVE _get_input_files_last_edge_first(_, _, _)
_get_input_files_last_edge_first(nid, es, outs) ==
    IF es = << >> THEN << >>
    ELSE LET e == Head(es)
             more == _get_input_files_last_edge_first(nid, Tail(es), outs)
         IN  IF e[2] = nid /\ e[1] \in DOMAIN outs /\ outs[e[1]] # Unset
             THEN more \o << outs[e[1]] >>
             ELSE more

RECURSIVE _get_input_files(_, _, _)
_get_input_files(nid, es, outs) ==
    IF es = << >> THEN << >>
    ELSE LET e == Head(es)
             more == _get_input_files(nid, Tail(es), outs)
         IN  IF e[2] = nid /\ e[1] \in DOMAIN outs /\ outs[e[1]] # Unset
             THEN << outs[e[1]] >> \o more
             ELSE more

\* ---------------------------------------------------------- node handlers
\* What one handler attempt does, as the engine sees it: it returns a row
\* count or raises an error text; `made` are the files it created and left
\* on disk; `put` is the path it stored in self._node_outputs[node_id]
\* (Unset if it stored none); `report` is the success flag of the result
\* an export adapter returned to the handler (NoReport if none was returned);
\* `open` is the number of analytical-engine sessions the attempt opened
\* and did not close.
Return(rows, made, put) ==
    [ok |-> TRUE, err |-> NoError, rows |-> rows, made |-> made, put |-> put,
     report |-> NoReport, open |-> 0]

Raise(err, made, put) ==
    [ok |-> FALSE, err |-> err, rows |-> 0, made |-> made, put |-> put,
     report |-> NoReport, open |-> 0]

\* the attempt o, the adapter having returned a result with this success flag
Reporting(o, flag) == [o EXCEPT !.report = flag]

\* the attempt o, leaving one session open
Leaking(o) == [o EXCEPT !.open = 1]

\* input_files[0] if input_files else ""
FirstOrEmpty(input_files) ==
    IF input_files # << >> THEN input_files[1] ELSE EmptyPath

\* file_service.download_to_temp unlinks its temporary file on S3Error only
_exec_file_input(tmp) ==
    { Raise("File not found", {}, Unset),
      Raise("StorageError", {}, Unset),
      Raise("download interrupted", { tmp }, Unset) }
    \cup { Return(r, { tmp }, tmp) : r \in RowCounts }

\* the csv connector returns its configured path, the http connector a new
\* temporary file
_exec_connector_input(node, tmp) ==
    IF node.ctype = "csv"
    THEN { Return(0, {}, SourcePath) }
    ELSE { Raise("HTTPStatusError", {}, Unset), Return(0, { tmp }, tmp) }

\* output_path is created before export_to_file runs, and stored in
\* _node_outputs before preview_file runs.  export_to_file and preview_file
\* close their session in a finally block, which a failure inside
\* _get_connection (after duckdb.connect) does not reach.
_exec_transform(input_files, tmp, files) ==
    IF input_files = << >>
    THEN { Raise("Transform node has no inputs", {}, Unset) }
    ELSE IF input_files[1] \notin files
    THEN { Raise("export_to_file failed", { tmp }, Unset),
           Leaking(Raise("export_to_file failed", { tmp }, Unset)) }
    ELSE { Raise("export_to_file failed", { tmp }, Unset),
           Leaking(Raise("export_to_file failed", { tmp }, Unset)),
           Raise("preview_file failed", { tmp }, tmp),
           Leaking(Raise("preview_file failed", { tmp }, tmp)) }
         \cup { Return(r, { tmp }, tmp) : r \in RowCounts }

\* a quality gate that also rejects a score equal to min_score
_exec_validation_inclusive(node, input_files, files) ==
    IF input_files = << >>
    THEN { Raise("Validation node has no inputs", {}, Unset) }
    ELSE IF input_files[1] \notin files
    THEN { Raise("data_quality_score failed", {}, Unset),
           Leaking(Raise("data_quality_score failed", {}, Unset)) }
    ELSE { Raise("data_quality_score failed", {}, Unset),
           Leaking(Raise("data_quality_score failed", {}, Unset)) }
         \cup IF node.score <= node.min_score
              THEN { Raise("Quality score below minimum", {}, Unset) }
              ELSE { Return(r, {}, input_files[1]) : r \in RowCounts \ { 0 } }

\* data_quality_score gives score 0.0 for a file without rows, so a score
\* above 0 comes with at least one row
_exec_validation(node, input_files, files) ==
    IF input_files = << >>
    THEN { Raise("Validation node has no inputs", {}, Unset) }
    ELSE IF input_files[1] \notin files
    THEN { Raise("data_quality_score failed", {}, Unset),
           Leaking(Raise("data_quality_score failed", {}, Unset)) }
    ELSE { Raise("data_quality_score failed", {}, Unset),
           Leaking(Raise("data_quality_score failed", {}, Unset)) }
         \cup IF node.score < node.min_score
              THEN { Raise("Quality score below minimum", {}, Unset) }
              ELSE { Return(r, {}, input_files[1]) : r \in RowCounts \ { 0 } }

_exec_file_output(input_files) ==
    IF input_files = << >>
    THEN { Raise("File output node has no inputs", {}, Unset) }
    ELSE { Return(0, {}, input_files[1]) }

_exec_invoke_http(tmp) ==
    { Raise("HTTPError", {}, Unset), Return(0, { tmp }, tmp) }

\* WebhookExportAdapter.export opens the data path before it posts, raises
\* when the request itself fails, and otherwise returns a result whose
\* success flag is status_code < 400; the handler reads only status_code,
\* for its log text
_exec_webhook_send(input_files, files) ==
    IF FirstOrEmpty(input_files) \notin files
    THEN { Raise("FileNotFoundError", {}, Unset) }
    ELSE { Raise("HTTPError", {}, Unset),
           Reporting(Return(0, {}, FirstOrEmpty(input_files)), "success"),
           Reporting(Return(0, {}, FirstOrEmpty(input_files)), "failure") }

\* MySQLConnector.write_data returns nothing; it opens a session of its own
\* and closes it on its last line only
_exec_db_insert(input_files, files) ==
    IF FirstOrEmpty(input_files) \notin files
    THEN { Raise("Unknown connector type", {}, Unset),
           Leaking(Raise("write_data failed", {}, Unset)) }
    ELSE { Raise("Unknown connector type", {}, Unset),
           Leaking(Raise("write_data failed", {}, Unset)),
           Return(0, {}, FirstOrEmpty(input_files)) }

\* the adapter named by adapter_type: the webhook adapter as above, or the
\* Odoo adapter, which returns a result with success = False when the
\* authentication fails (before it opens the data path), when the data is
\* not JSON or when a record is refused; the handler dumps the result into
\* its log text
_exec_export(input_files, files) ==
    IF FirstOrEmpty(input_files) \notin files
    THEN { Raise("FileNotFoundError", {}, Unset),
           Reporting(Return(0, {}, Unset), "failure") }
    ELSE { Raise("HTTPError", {}, Unset),
           Reporting(Return(0, {}, Unset), "success"),
           Reporting(Return(0, {}, Unset), "failure") }

\* with two inputs or more a session is opened, the views are created, then
\* the temporary file, then COPY writes into it; conn.close() follows COPY
\* and is not in a finally block
_exec_merge(input_files, tmp, files) ==
    IF Len(input_files) < 2
    THEN IF input_files # << >>
         THEN { Return(0, {}, input_files[1]) }
         ELSE { Raise("Merge needs at least 1 input", {}, Unset) }
    ELSE IF \E k \in 1 .. Len(input_files) : input_files[k] \notin files
    THEN { Leaking(Raise("CREATE VIEW failed", {}, Unset)) }
    ELSE { Leaking(Raise("COPY failed", { tmp }, Unset)),
           Return(0, { tmp }, tmp) }

_exec_conditional(input_files) ==
    { Return(0, {}, FirstOrEmpty(input_files)) }

_execute_node(node, es, outs, tmp, files) ==
    LET input_files == _get_input_files(node.id, es, outs)
    IN  CASE node.type = "file_input" -> _exec_file_input(tmp)
          [] node.type = "connector_input" -> _exec_connector_input(node, tmp)
          [] node.type = "transform" -> _exec_transform(input_files, tmp, files)
          [] node.type = "validation" -> _exec_validation(node, input_files, files)
          [] node.type = "file_output" -> _exec_file_output(input_files)
          [] node.type = "invoke_http" -> _exec_invoke_http(tmp)
          [] node.type = "webhook_send" -> _exec_webhook_send(input_files, files)
          [] node.type = "db_insert" -> _exec_db_insert(input_files, files)
          [] node.type = "export" -> _exec_export(input_files, files)
          [] node.type = "merge" -> _exec_merge(input_files, tmp, files)
          [] node.type = "conditional_branch" -> _exec_conditional(input_files)
          [] OTHER -> { Return(0, {}, Unset) }

\* ------------------------------------------------------------ _step_to_sql
\* A SQL statement is the sequence of the pieces its f-string is put
\* together from.  A step is a dict with the keys "operator" and "params";
\* params is a dict, here a function from the keys it has.
Quoted(c) == "\"" \o c \o "\""

RECURSIVE QuotedList(_)
QuotedList(cols) ==
    IF cols = << >> THEN << >>
    ELSE << Quoted(Head(cols)) >> \o QuotedList(Tail(cols))

\* params.get(key, default)
Get(params, key, default) ==
    IF key \in DOMAIN params THEN params[key] ELSE default

\* the outcome of compiling a step: a statement, or the KeyError of
\* params[key] for a key that params does not have
Compiled(sql) == [raised |-> NoError, sql |-> sql]
KeyError(key) == [raised |-> "KeyError", sql |-> << key >>]

Requiring(params, keys, sql) ==
    IF keys \subseteq DOMAIN params THEN Compiled(sql)
    ELSE KeyError(CHOOSE k \in keys : k \notin DOMAIN params)

\* an else branch that compiles to something other than the identity
PassThroughSql_distinct(source_view) ==
    Compiled(<< "SELECT DISTINCT * FROM", source_view >>)

\* lines 368-370
PassThroughSql(source_view) == Compiled(<< "SELECT * FROM", source_view >>)

\* lines 277-280
RenameColumnSql(params, source_view) ==
    Requiring(params, { "from_name", "to_name" },
        << "SELECT * REPLACE (", Quoted(Get(params, "from_name", "")), "AS",
           Quoted(Get(params, "to_name", "")), ") FROM", source_view >>)

\* lines 282-285
CastTypeSql(params, source_view) ==
    Requiring(params, { "column", "target_type" },
        << "SELECT * REPLACE (CAST(", Quoted(Get(params, "column", "")), "AS",
           Get(params, "target_type", ""), ") AS",
           Quoted(Get(params, "column", "")), ") FROM", source_view >>)

\* lines 287-295: both branches return the identity selection
TrimWhitespaceSql(params, source_view) ==
    Compiled(<< "SELECT * FROM", source_view >>)

\* lines 297-299
FilterRowsSql(params, source_view) ==
    Requiring(params, { "expression" },
        << "SELECT * FROM", source_view, "WHERE",
           Get(params, "expression", "") >>)

\* lines 301-304: the conditions are joined with AND (none for no column)
DropNullsSql(params, source_view) ==
    Compiled(<< "SELECT * FROM", source_view, "WHERE",
                QuotedList(Get(params, "columns", << >>)), "IS NOT NULL" >>)

\* a deduplication that ignores the column list
DeduplicateRowsSql_all_columns(params, source_view) ==
    Compiled(<< "SELECT DISTINCT * FROM", source_view >>)

\* lines 306-315
DeduplicateRowsSql(params, source_view) ==
    IF Get(params, "columns", << >>) # << >>
    THEN Compiled(
             << "SELECT * FROM (SELECT *, ROW_NUMBER() OVER (PARTITION BY",
                QuotedList(Get(params, "columns", << >>)),
                "ORDER BY ROWID) AS _rn FROM", source_view,
                ") WHERE _rn = 1" >>)
    ELSE Compiled(<< "SELECT DISTINCT * FROM", source_view >>)

\* lines 317-324
ReplaceTextSql(params, source_view) ==
    Requiring(params, { "column", "find", "replace" },
        << "SELECT * REPLACE (REPLACE(", Quoted(Get(params, "column", "")),
           Get(params, "find", ""), Get(params, "replace", ""), ") AS",
           Quoted(Get(params, "column", "")), ") FROM", source_view >>)

\* lines 326-333
RegexReplaceSql(params, source_view) ==
    Requiring(params, { "column", "pattern", "replacement" },
        << "SELECT * REPLACE (regexp_replace(",
           Quoted(Get(params, "column", "")), Get(params, "pattern", ""),
           Get(params, "replacement", ""), "'g') AS",
           Quoted(Get(params, "column", "")), ") FROM", source_view >>)

\* lines 335-338
AddDerivedColumnSql(params, source_view) ==
    Requiring(params, { "name", "expression" },
        << "SELECT *, (", Get(params, "expression", ""), ") AS",
           Quoted(Get(params, "name", "")), "FROM", source_view >>)

\* lines 340-347
SplitColumnSql(params, source_view) ==
    Requiring(params, { "column", "delimiter" },
        << "SELECT *, string_split(", Quoted(Get(params, "column", "")),
           Get(params, "delimiter", ""), ") AS",
           QuotedList(Get(params, "new_names",
               << Get(params, "column", "") \o "_1",
                  Get(params, "column", "") \o "_2" >>)),
           "FROM", source_view >>)

\* lines 349-354
MergeColumnsSql(params, source_view) ==
    Requiring(params, { "columns", "new_name" },
        << "SELECT *, (COALESCE(CAST(",
           QuotedList(Get(params, "columns", << >>)), "AS VARCHAR), '')) AS",
           Quoted(Get(params, "new_name", "")), "FROM", source_view >>)

\* lines 356-359: the text of the step, with {{input}} replaced
SqlTransformSql(params, source_view) ==
    Requiring(params, { "sql" },
        << Get(params, "sql", ""), "{{input}} =", source_view >>)

\* lines 361-366
AggregateSql(params, source_view) ==
    Compiled(<< "SELECT", QuotedList(Get(params, "group_by", << >>)),
                Get(params, "aggregations", << >>), "FROM", source_view,
                "GROUP BY", QuotedList(Get(params, "group_by", << >>)) >>)

\* lines 272-370; step.get("operator", "") and step.get("params", {})
_step_to_sql(step, source_view) ==
    LET op == Get(step, "operator", "")
        params == Get(step, "params", [k \in {} |-> k])
    IN  CASE op = "rename_column" -> RenameColumnSql(params, source_view)
          [] op = "cast_type" -> CastTypeSql(params, source_view)
          [] op = "trim_whitespace" -> TrimWhitespaceSql(params, source_view)
          [] op = "filter_rows" -> FilterRowsSql(params, source_view)
          [] op = "drop_nulls" -> DropNullsSql(params, source_view)
          [] op = "deduplicate_rows" -> DeduplicateRowsSql(params, source_view)
          [] op = "replace_text" -> ReplaceTextSql(params, source_view)
          [] op = "regex_replace" -> RegexReplaceSql(params, source_view)
          [] op = "add_derived_column" ->
                 AddDerivedColumnSql(params, source_view)
          [] op = "split_column" -> SplitColumnSql(params, source_view)
          [] op = "merge_columns" -> MergeColumnsSql(params, source_view)
          [] op = "sql_transform" -> SqlTransformSql(params, source_view)
          [] op = "aggregate" -> AggregateSql(params, source_view)
          [] OTHER -> PassThroughSql(source_view)

\* --------------------------------------------- the statements, executed
\* What the analytical engine makes of a statement over the relation of
\* its source view, for the statements of rename_column, cast_type,
\* deduplicate_rows, merge_columns and the identity selection.  SELECT * REPLACE (e AS c)
\* keeps the columns of the source and puts e in the place of the column
\* named c, which has to be one of them.  ROWID is taken to number the rows
\* of the source in their order.
Relation(columns, types, rows) ==
    [columns |-> columns, types |-> types, rows |-> rows, none |-> FALSE]

Executed(rel) == [error |-> NoError, rel |-> rel]
Refused(error) == [error |-> error, rel |-> NoRelation]

HasColumn(rel, quoted) ==
    \E i \in 1 .. Len(rel.columns) : Quoted(rel.columns[i]) = quoted

Position(rel, quoted) ==
    CHOOSE i \in 1 .. Len(rel.columns) : Quoted(rel.columns[i]) = quoted

\* the texts that are integers, and their values
Digits == << "0", "1", "2" >>
IsNumeric(text) == \E i \in 1 .. Len(Digits) : Digits[i] = text
ParseInteger(text) == (CHOOSE i \in 1 .. Len(Digits) : Digits[i] = text) - 1

IntegerTypes == { "INTEGER", "BIGINT" }

\* SELECT * REPLACE ("from" AS "to")
StarReplaceColumn(rel, from, to) ==
    IF ~HasColumn(rel, from) \/ ~HasColumn(rel, to)
    THEN Refused("Binder Error")
    ELSE LET i == Position(rel, from)
             j == Position(rel, to)
         IN  Executed(Relation(rel.columns,
                 [rel.types EXCEPT ![j] = rel.types[i]],
                 [r \in DOMAIN rel.rows |->
                     [rel.rows[r] EXCEPT ![j] = rel.rows[r][i]]]))

\* SELECT * REPLACE (CAST("col" AS INTEGER) AS "col")
StarReplaceCast(rel, col, target) ==
    IF ~HasColumn(rel, col) THEN Refused("Binder Error")
    ELSE LET i == Position(rel, col)
         IN  IF rel.types[i] \in IntegerTypes
             THEN Executed(Relation(rel.columns,
                      [rel.types EXCEPT ![i] = target], rel.rows))
             ELSE IF \E r \in DOMAIN rel.rows : ~IsNumeric(rel.rows[r][i])
             THEN Refused("Conversion Error")
             ELSE Executed(Relation(rel.columns,
                      [rel.types EXCEPT ![i] = target],
                      [r \in DOMAIN rel.rows |->
                          [rel.rows[r] EXCEPT
                              ![i] = ParseInteger(rel.rows[r][i])]]))

\* the rows that are the first of their partition by the columns at P
RECURSIVE FirstOfPartition(_, _, _)
FirstOfPartition(rows, P, k) ==
    IF k > Len(rows) THEN << >>
    ELSE IF \E j \in 1 .. k - 1 : \A c \in P : rows[j][c] = rows[k][c]
    THEN FirstOfPartition(rows, P, k + 1)
    ELSE << rows[k] >> \o FirstOfPartition(rows, P, k + 1)

\* SELECT * FROM (SELECT *, ROW_NUMBER() OVER (PARTITION BY ... ORDER BY
\* ROWID) AS _rn FROM ...) WHERE _rn = 1
RowNumberOne(rel, partition) ==
    IF \E c \in 1 .. Len(partition) : ~HasColumn(rel, partition[c])
    THEN Refused("Binder Error")
    ELSE LET P == { Position(rel, partition[c]) : c \in 1 .. Len(partition) }
             kept == FirstOfPartition(rel.rows, P, 1)
         IN  Executed(Relation(Append(rel.columns, "_rn"),
                 Append(rel.types, "BIGINT"),
                 [r \in DOMAIN kept |-> Append(kept[r], 1)]))

\* SELECT DISTINCT *
SelectDistinct(rel) ==
    Executed(Relation(rel.columns, rel.types,
        FirstOfPartition(rel.rows, 1 .. Len(rel.columns), 1)))

\* the SQL NULL; the texts in the rows are other strings
Null == "<NULL>"

\* the column names of the relations that are followed
Names == { "A", "B", "C" }
Unquoted(quoted) == CHOOSE c \in Names : Quoted(c) = quoted

\* COALESCE(CAST(value AS VARCHAR), ''); the integer columns of the
\* relations that are followed hold no NULL
CoalescedText(value, type) ==
    IF type \in IntegerTypes THEN ToString(value)
    ELSE IF value = Null THEN ""
    ELSE value

\* e1 || e2 || ... over the columns at the positions ps of a row
RECURSIVE Concatenated(_, _, _)
Concatenated(rel, row, ps) ==
    IF ps = << >> THEN ""
    ELSE CoalescedText(row[Head(ps)], rel.types[Head(ps)])
             \o Concatenated(rel, row, Tail(ps))

\* SELECT *, (COALESCE(CAST("c1" AS VARCHAR), '') || ...) AS "new_name"
StarAndConcatenation(rel, cols, new_name) ==
    IF \E c \in 1 .. Len(cols) : ~HasColumn(rel, cols[c])
    THEN Refused("Binder Error")
    ELSE IF cols = << >> THEN Refused("Parser Error")
    ELSE LET ps == [c \in 1 .. Len(cols) |-> Position(rel, cols[c])]
         IN  Executed(Relation(Append(rel.columns, Unquoted(new_name)),
                 Append(rel.types, "VARCHAR"),
                 [r \in DOMAIN rel.rows |->
                     Append(rel.rows[r], Concatenated(rel, rel.rows[r], ps))]))

\* conn.execute(CREATE VIEW ... AS sql): the statement is bound to the
\* source view when the view is created
Execute(sql, rel) ==
    CASE sql[1] = "SELECT * FROM" /\ Len(sql) = 2 -> Executed(rel)
      [] sql[1] = "SELECT DISTINCT * FROM" -> SelectDistinct(rel)
      [] sql[1] = "SELECT * REPLACE (" -> StarReplaceColumn(rel, sql[2], sql[4])
      [] sql[1] = "SELECT * REPLACE (CAST(" ->
             StarReplaceCast(rel, sql[2], sql[4])
      [] sql[1] = "SELECT * FROM (SELECT *, ROW_NUMBER() OVER (PARTITION BY" ->
             RowNumberOne(rel, sql[2])
      [] sql[1] = "SELECT *, (COALESCE(CAST(" ->
             StarAndConcatenation(rel, sql[2], sql[4])
      [] OTHER -> Refused("not followed")

\* ------------------------------------------------------------------- Init
\* The graphs a run is started on, in two families.
\*
\* StructureGraphs: every shape of graph over up to MaxNodes nodes and
\* MaxEdges edges (edge order and repeated edges included), the nodes being
\* http connector inputs or file outputs.  Node ids are numbered by position;
\* a graph may have an edge end that is NoNode, the id of no node, or a
\* node that repeats an earlier node's id.
\*
\* HandlerGraphs: one node, or two nodes of which the second may read the
\* first (once or through repeated edges), the nodes being of every type
\* and configuration.
\*
\* FanInGraphs: three nodes, the third reading the first two.
StructureKinds ==
    { Kind("connector_input", "http", MinScoreDefault, 90),
      Kind("file_output", "csv", MinScoreDefault, 90) }

\* the node list with ids[i] as the id and kinds[i] as the rest of node i
NodeList(ids, kinds) == [i \in DOMAIN ids |-> NodeDef(ids[i], kinds[i])]

UniqueIds(n) == { [i \in 1 .. n |-> i] }
AnyIds(n) == { ids \in [1 .. n -> 1 .. n] : \A i \in 1 .. n : ids[i] <= i }

StructureGraphs(n) ==
    \/ /\ \E ids \in UniqueIds(n), kinds \in [1 .. n -> StructureKinds] :
              nodes = NodeList(ids, kinds)
       /\ edges \in SeqsUpTo((NoNode .. n) \X (NoNode .. n), MaxEdges)
    \/ /\ \E ids \in AnyIds(n), kinds \in [1 .. n -> StructureKinds] :
              nodes = NodeList(ids, kinds)
       /\ edges \in SeqsUpTo((1 .. n) \X (1 .. n), MaxEdges)

HandlerGraphs(n) ==
    /\ \E ids \in UniqueIds(n), kinds \in [1 .. n -> NodeKinds] :
          nodes = NodeList(ids, kinds)
    /\ edges \in SeqsUpTo({ << i, i + 1 >> : i \in 1 .. n - 1 }, MaxEdges)

\* two sources, of which one may register no output, and a node that reads
\* both, the edges in either order
FanInKinds ==
    { Kind("connector_input", c, MinScoreDefault, 90) : c \in ConnectorTypes }
    \cup { Kind("export", "csv", MinScoreDefault, 90) }

FanInGraphs ==
    /\ \E k1, k2 \in FanInKinds, t \in { "merge", "file_output" } :
          nodes = NodeList(<< 1, 2, 3 >>,
                           << k1, k2, Kind(t, "csv", MinScoreDefault, 90) >>)
    /\ edges \in { << << 1, 3 >>, << 2, 3 >> >>, << << 2, 3 >>, << 1, 3 >> >> }

RunCreated ==
    /\ pipelineFound \in BOOLEAN
    /\ status = "pending"
    /\ error_message = NoError
    /\ rows_processed = 0
    /\ pc = "start"
    /\ exception = NoError
    /\ result = "none"
    /\ order = << >>
    /\ pos = 0
    /\ attempt = 0
    /\ success = FALSE
    /\ last_error = NoError
    /\ total_rows = 0
    /\ node_logs = << >>
    /\ node_outputs = [nid \in Ids(nodes) |-> Unset]
    /\ disk = { SourcePath }
    /\ nextTmp = FirstTmp
    /\ sessions = 0
    /\ calls = << >>
    /\ sleeps = << >>
    /\ writes = << >>
    /\ created = {}
    /\ external = FALSE

\* the transforms of the run's nodes are not followed statement by statement
NoExport ==
    /\ steps = << >>
    /\ step_no = 0
    /\ views = << >>
    /\ statements = << >>
    /\ export_pc = "idle"
    /\ export_error = NoError
    /\ exported = NoRelation

\* execute called on its own: no task around it, no second invocation
Alone ==
    /\ task = NoTask
    /\ task_error = NoError
    /\ published = << >>
    /\ other = NoPeer
    /\ NoExport

Init ==
    /\ \/ \E n \in 0 .. MaxNodes : StructureGraphs(n)
       \/ \E n \in 1 .. 2 : HandlerGraphs(n)
       \/ FanInGraphs
    /\ RunCreated
    /\ Alone

\* the runs during which an external actor changes the status: one node
\* of every type
InitExt ==
    /\ HandlerGraphs(1)
    /\ RunCreated
    /\ Alone

\* ---------------------------------------------------------------- execute
run_vars == << status, error_message, rows_processed, writes >>
graph_vars == << nodes, edges, pipelineFound >>
loop_vars == << attempt, success, last_error >>
file_vars == << node_outputs, disk, nextTmp, sessions, created >>

\* lines 42-44: the pipeline is not found; ExecutionError leaves execute
\* before the try block
PipelineNotFound ==
    /\ pc = "start"
    /\ ~pipelineFound
    /\ pc' = "raised"
    /\ exception' = "Pipeline not found"
    /\ UNCHANGED << graph_vars, run_vars, result, order, pos, loop_vars,
                    total_rows, node_logs, file_vars, calls, sleeps, external,
                    outer_vars >>

\* lines 46-49
MarkRunning ==
    /\ pc = "start"
    /\ pipelineFound
    /\ status' = "running"
    /\ writes' = Append(writes, << status, "running" >>)
    /\ pc' = "sort"
    /\ UNCHANGED << graph_vars, error_message, rows_processed, exception,
                    result, order, pos, loop_vars, total_rows, node_logs,
                    file_vars, calls, sleeps, external,
                    outer_vars >>

\* lines 52-59
Sort ==
    /\ pc = "sort"
    /\ LET r == _topological_sort(nodes, edges)
       IN  IF r.ok
           THEN /\ order' = r.order
                /\ pc' = "loop"
                /\ UNCHANGED exception
           ELSE /\ exception' = "KeyError"
                /\ pc' = "except"
                /\ UNCHANGED order
    /\ total_rows' = 0
    /\ UNCHANGED << graph_vars, run_vars, result, pos, loop_vars, node_logs,
                    file_vars, calls, sleeps, external,
                    outer_vars >>

\* lines 60-78: the next node of the order gets its NodeRunLog row
BeginNode ==
    /\ pc = "loop"
    /\ pos < Len(order)
    /\ pos' = pos + 1
    /\ node_logs' = Append(node_logs,
          [node_id |-> order[pos + 1].id, node_type |-> order[pos + 1].type,
           status |-> "running", attempt_no |-> AttemptDefault,
           rows_out |-> 0, log_text |-> NoError])
    /\ success' = FALSE
    /\ last_error' = NoError
    /\ attempt' = 1
    /\ pc' = "attempt"
    /\ UNCHANGED << graph_vars, run_vars, exception, result, order,
                    total_rows, file_vars, calls, sleeps, external,
                    outer_vars >>

\* handler attempts of which a failed one drops every entry of _node_outputs
HandlerEffects_failure_forgets(node, o) ==
    /\ disk' = disk \cup o.made
    /\ created' = created \cup o.made
    /\ nextTmp' = IF o.made = {} THEN nextTmp ELSE nextTmp + 1
    /\ sessions' = sessions + o.open
    /\ node_outputs' =
          IF ~o.ok THEN [nid \in DOMAIN node_outputs |-> Unset]
          ELSE IF o.put = Unset THEN node_outputs
          ELSE [node_outputs EXCEPT ![node.id] = o.put]
    /\ calls' = Append(calls,
          [node |-> node.id, attempt |-> attempt, ok |-> o.ok, err |-> o.err,
           report |-> o.report, rows |-> o.rows,
           inputs |-> _get_input_files(node.id, edges, node_outputs)])

\* what a handler attempt leaves behind, whether it returns or raises
HandlerEffects(node, o) ==
    /\ disk' = disk \cup o.made
    /\ created' = created \cup o.made
    /\ nextTmp' = IF o.made = {} THEN nextTmp ELSE nextTmp + 1
    /\ sessions' = sessions + o.open
    /\ node_outputs' =
          IF o.put = Unset THEN node_outputs
          ELSE [node_outputs EXCEPT ![node.id] = o.put]
    /\ calls' = Append(calls,
          [node |-> node.id, attempt |-> attempt, ok |-> o.ok, err |-> o.err,
           report |-> o.report, rows |-> o.rows,
           inputs |-> _get_input_files(node.id, edges, node_outputs)])

SetLog(log) == node_logs' = [node_logs EXCEPT ![Len(node_logs)] = log]

\* an attempt that returns and whose row count replaces the total
AttemptReturns_replaces_total ==
    /\ pc = "attempt"
    /\ LET node == order[pos]
       IN  \E o \in _execute_node(node, edges, node_outputs, nextTmp, disk) :
              /\ o.ok
              /\ HandlerEffects(node, o)
              /\ SetLog([node_logs[Len(node_logs)] EXCEPT
                            !.status = "success", !.rows_out = o.rows,
                            !.log_text = "OK"])
              /\ total_rows' = o.rows
    /\ success' = TRUE
    /\ pc' = "after_retries"
    /\ UNCHANGED << graph_vars, run_vars, exception, result, order, pos,
                    attempt, last_error, sleeps, external,
                    outer_vars >>

\* lines 79-87: the attempt returns
AttemptReturns ==
    /\ pc = "attempt"
    /\ LET node == order[pos]
       IN  \E o \in _execute_node(node, edges, node_outputs, nextTmp, disk) :
              /\ o.ok
              /\ HandlerEffects(node, o)
              /\ SetLog([node_logs[Len(node_logs)] EXCEPT
                            !.status = "success", !.rows_out = o.rows,
                            !.log_text = "OK"])
              /\ total_rows' = total_rows + o.rows
    /\ success' = TRUE
    /\ pc' = "after_retries"
    /\ UNCHANGED << graph_vars, run_vars, exception, result, order, pos,
                    attempt, last_error, sleeps, external,
                    outer_vars >>

\* a retry loop that sleeps retry_delay after every failed attempt, the
\* last one included
AttemptRaises_flat_delay ==
    /\ pc = "attempt"
    /\ LET node == order[pos]
       IN  \E o \in _execute_node(node, edges, node_outputs, nextTmp, disk) :
              /\ ~o.ok
              /\ HandlerEffects(node, o)
              /\ last_error' = o.err
    /\ SetLog([node_logs[Len(node_logs)] EXCEPT !.attempt_no = attempt])
    /\ sleeps' = Append(sleeps, retry_delay)
    /\ IF attempt < max_retries
       THEN /\ attempt' = attempt + 1
            /\ pc' = "attempt"
       ELSE /\ UNCHANGED attempt
            /\ pc' = "after_retries"
    /\ UNCHANGED << graph_vars, run_vars, exception, result, order, pos,
                    success, total_rows, external, outer_vars >>

\* lines 88-92: the attempt raises
AttemptRaises ==
    /\ pc = "attempt"
    /\ LET node == order[pos]
       IN  \E o \in _execute_node(node, edges, node_outputs, nextTmp, disk) :
              /\ ~o.ok
              /\ HandlerEffects(node, o)
              /\ last_error' = o.err
    /\ SetLog([node_logs[Len(node_logs)] EXCEPT !.attempt_no = attempt])
    /\ IF attempt < max_retries
       THEN /\ sleeps' = Append(sleeps, retry_delay * attempt)
            /\ attempt' = attempt + 1
            /\ pc' = "attempt"
       ELSE /\ UNCHANGED << sleeps, attempt >>
            /\ pc' = "after_retries"
    /\ UNCHANGED << graph_vars, run_vars, exception, result, order, pos,
                    success, total_rows, external, outer_vars >>

\* a failed node that does not raise: the loop goes on to the next node
NodeFailed_continues ==
    /\ pc = "after_retries"
    /\ ~success
    /\ SetLog([node_logs[Len(node_logs)] EXCEPT
                  !.status = "failed", !.log_text = last_error])
    /\ pc' = "loop"
    /\ UNCHANGED << graph_vars, run_vars, exception, result, order, pos,
                    loop_vars, total_rows, file_vars, calls, sleeps, external,
                    outer_vars >>

\* lines 94-102
NodeFailed ==
    /\ pc = "after_retries"
    /\ ~success
    /\ SetLog([node_logs[Len(node_logs)] EXCEPT
                  !.status = "failed", !.log_text = last_error])
    /\ exception' = << order[pos].id, last_error >>
    /\ pc' = "except"
    /\ UNCHANGED << graph_vars, run_vars, result, order, pos, loop_vars,
                    total_rows, file_vars, calls, sleeps, external,
                    outer_vars >>

\* lines 104-108
NodeFinished ==
    /\ pc = "after_retries"
    /\ success
    /\ pc' = "loop"
    /\ UNCHANGED << graph_vars, run_vars, exception, result, order, pos,
                    loop_vars, total_rows, node_logs, file_vars, calls,
                    sleeps, external,
                    outer_vars >>

\* lines 110-123
RunSuccess ==
    /\ pc = "loop"
    /\ pos = Len(order)
    /\ status' = "success"
    /\ writes' = Append(writes, << status, "success" >>)
    /\ rows_processed' = total_rows
    /\ result' = "success"
    /\ pc' = "finally"
    /\ UNCHANGED << graph_vars, error_message, exception, order, pos,
                    loop_vars, total_rows, node_logs, file_vars, calls,
                    sleeps, external,
                    outer_vars >>

\* an except block that records the error but not the status
RunFailed_keeps_status ==
    /\ pc = "except"
    /\ error_message' = exception
    /\ result' = "failed"
    /\ pc' = "finally"
    /\ UNCHANGED << graph_vars, status, writes, rows_processed, exception,
                    order, pos, loop_vars, total_rows, node_logs, file_vars,
                    calls, sleeps, external,
                    outer_vars >>

\* lines 125-134
RunFailed ==
    /\ pc = "except"
    /\ status' = "failed"
    /\ writes' = Append(writes, << status, "failed" >>)
    /\ error_message' = exception
    /\ result' = "failed"
    /\ pc' = "finally"
    /\ UNCHANGED << graph_vars, rows_processed, exception, order, pos,
                    loop_vars, total_rows, node_logs, file_vars, calls,
                    sleeps, external,
                    outer_vars >>

\* lines 136-143: every truthy path held in _node_outputs is unlinked
Registered(outs) ==
    { outs[nid] : nid \in DOMAIN outs } \ { Unset, EmptyPath }

Cleanup ==
    /\ pc = "finally"
    /\ disk' = disk \ Registered(node_outputs)
    /\ pc' = "returned"
    /\ UNCHANGED << graph_vars, run_vars, exception, result, order, pos,
                    loop_vars, total_rows, node_logs, node_outputs, nextTmp,
                    sessions, created, calls, sleeps, external,
                    outer_vars >>

Next ==
    \/ PipelineNotFound
    \/ MarkRunning
    \/ Sort
    \/ BeginNode
    \/ AttemptReturns
    \/ AttemptRaises
    \/ NodeFailed
    \/ NodeFinished
    \/ RunSuccess
    \/ RunFailed
    \/ Cleanup

Spec == Init /\ [][Next]_vars

\* ---------------------------------------------------------- external actor
\* Another session changes the status column of the run row while execute
\* is under way (or before it starts); the engine's next commit writes its
\* own value over it.
ExternalStatusChange ==
    /\ pc \notin { "returned", "raised" }
    /\ \E s \in PipelineRunStatus \ { status } : status' = s
    /\ external' = TRUE
    /\ UNCHANGED << graph_vars, error_message, rows_processed, writes, pc,
                    exception, result, order, pos, loop_vars, total_rows,
                    node_logs, file_vars, calls, sleeps, outer_vars >>

NextExt == Next \/ ExternalStatusChange

SpecExt == InitExt /\ [][NextExt]_vars

\* ------------------------------------------------------ execute_pipeline_run
\* The task of tasks/celery_app.py around execute.  CacheService.publish
\* swallows redis.ConnectionError and lets every other exception through
\* (a time-out, a refused command, an invalid REDIS_URL).
PublishOutcomes == { "sent", "ConnectionError", "other error" }

engine_vars ==
    << graph_vars, run_vars, pc, exception, result, order, pos, loop_vars,
       total_rows, node_logs, file_vars, calls, sleeps, external >>

InitTask ==
    /\ HandlerGraphs(1)
    /\ RunCreated
    /\ task = "execute"
    /\ task_error = NoError
    /\ published = << >>
    /\ other = NoPeer
    /\ NoExport

\* lines 39-47: execute has returned its result; the completion event is
\* published and the task returns the result
PublishCompletion ==
    /\ task = "execute"
    /\ pc = "returned"
    /\ \E o \in PublishOutcomes :
          /\ published' = IF o = "sent" THEN Append(published, result)
                          ELSE published
          /\ IF o = "other error"
             THEN task' = "except" /\ task_error' = "publish failed"
             ELSE task' = "returned" /\ UNCHANGED task_error
    /\ UNCHANGED << engine_vars, other, export_vars >>

\* lines 39, 48: execute has raised
ExecuteRaised ==
    /\ task = "execute"
    /\ pc = "raised"
    /\ task' = "except"
    /\ task_error' = exception
    /\ UNCHANGED << engine_vars, published, other, export_vars >>

\* lines 48-54: the failure event is published and the exception raised
\* again; an exception of publish itself takes its place
PublishFailure ==
    /\ task = "except"
    /\ \E o \in PublishOutcomes :
          /\ published' = IF o = "sent" THEN Append(published, "failed")
                          ELSE published
          /\ task_error' = IF o = "other error" THEN "publish failed"
                           ELSE task_error
    /\ task' = "raised"
    /\ UNCHANGED << engine_vars, other, export_vars >>

NextTask == Next \/ PublishCompletion \/ ExecuteRaised \/ PublishFailure

SpecTask == InitTask /\ [][NextTask]_vars

\* ------------------------------------------------------ two invocations
\* Two PipelineExecutor objects, each with its own run record, node list,
\* _node_outputs and loop variables, run execute on one machine: they share
\* the disk (and the names of its temporary files are never reused).  The
\* variables above are those of the invocation that takes the next step;
\* `other` keeps those of the invocation that waits.
Waiting ==
    [nodes |-> nodes, edges |-> edges, pipelineFound |-> pipelineFound,
     status |-> status, error_message |-> error_message,
     rows_processed |-> rows_processed, pc |-> pc, exception |-> exception,
     result |-> result, order |-> order, pos |-> pos, attempt |-> attempt,
     success |-> success, last_error |-> last_error,
     total_rows |-> total_rows, node_logs |-> node_logs,
     node_outputs |-> node_outputs, calls |-> calls, sleeps |-> sleeps,
     writes |-> writes, created |-> created, external |-> external]

\* both runs are of one pipeline: a local-file connector input read by a
\* transform
PairGraph ==
    /\ nodes = NodeList(<< 1, 2 >>,
                   << Kind("connector_input", "csv", MinScoreDefault, 90),
                      Kind("transform", "csv", MinScoreDefault, 90) >>)
    /\ edges = << << 1, 2 >> >>

InitPair ==
    /\ PairGraph
    /\ RunCreated
    /\ task = NoTask
    /\ task_error = NoError
    /\ published = << >>
    /\ other = Waiting
    /\ NoExport

\* the scheduler lets the other invocation take the next steps
Switch ==
    /\ other.pc # NoPeer.pc
    /\ other' = Waiting
    /\ nodes' = other.nodes
    /\ edges' = other.edges
    /\ pipelineFound' = other.pipelineFound
    /\ status' = other.status
    /\ error_message' = other.error_message
    /\ rows_processed' = other.rows_processed
    /\ pc' = other.pc
    /\ exception' = other.exception
    /\ result' = other.result
    /\ order' = other.order
    /\ pos' = other.pos
    /\ attempt' = other.attempt
    /\ success' = other.success
    /\ last_error' = other.last_error
    /\ total_rows' = other.total_rows
    /\ node_logs' = other.node_logs
    /\ node_outputs' = other.node_outputs
    /\ calls' = other.calls
    /\ sleeps' = other.sleeps
    /\ writes' = other.writes
    /\ created' = other.created
    /\ external' = other.external
    /\ UNCHANGED << disk, nextTmp, sessions, task_vars, export_vars >>

NextPair == Next \/ Switch

SpecPair == InitPair /\ [][NextPair]_vars

\* ---------------------------------------------------------- export_to_file
\* DuckDBEngine.export_to_file, statement by statement: the view _input
\* over the file (views[1], the relation read from the file), one view per
\* step, then COPY of the last view.
NoParams == [k \in {} |-> k]

Operators ==
    { "rename_column", "cast_type", "trim_whitespace", "filter_rows",
      "drop_nulls", "deduplicate_rows", "replace_text", "regex_replace",
      "add_derived_column", "split_column", "merge_columns", "sql_transform",
      "aggregate" }

\* the keys an operator's branch reads from params
Keys(op) ==
    CASE op = "rename_column" -> { "from_name", "to_name" }
      [] op = "cast_type" -> { "column", "target_type" }
      [] op = "trim_whitespace" -> { "columns" }
      [] op = "filter_rows" -> { "expression" }
      [] op = "drop_nulls" -> { "columns" }
      [] op = "deduplicate_rows" -> { "columns" }
      [] op = "replace_text" -> { "column", "find", "replace" }
      [] op = "regex_replace" -> { "column", "pattern", "replacement" }
      [] op = "add_derived_column" -> { "name", "expression" }
      [] op = "split_column" -> { "column", "delimiter", "new_names" }
      [] op = "merge_columns" -> { "columns", "separator", "new_name" }
      [] op = "sql_transform" -> { "sql" }
      [] op = "aggregate" -> { "group_by", "aggregations" }
      [] OTHER -> { "column", "columns" }

SampleValue(key) ==
    CASE key \in { "columns", "group_by", "new_names" } -> << "A" >>
      [] key = "aggregations" -> << "A", "sum" >>
      [] key = "target_type" -> "INTEGER"
      [] key \in { "from_name", "column", "name" } -> "A"
      [] key \in { "to_name", "new_name" } -> "B"
      [] key = "expression" -> "A > 1"
      [] key = "sql" -> "SELECT * FROM {{input}}"
      [] OTHER -> ","

\* every operator, one more name and no name at all, with every choice of
\* the keys present in params (an empty column list too), or no params
AnySteps ==
    UNION { { [operator |-> op, params |-> [k \in S |-> SampleValue(k)]] :
                S \in SUBSET Keys(op) } :
            op \in Operators \cup { "pivot", "" } }
    \cup { [operator |-> op, params |-> [columns |-> << >>]] :
             op \in { "trim_whitespace", "drop_nulls", "deduplicate_rows",
                      "pivot" } }
    \cup { [operator |-> op] : op \in Operators \cup { "pivot" } }
    \cup { [params |-> NoParams] }

ColumnNames == { "A", "B" }

\* the steps whose statements are followed into the views they define
FollowedSteps ==
    { [operator |-> "rename_column",
       params |-> [from_name |-> f, to_name |-> t]] : f, t \in ColumnNames }
    \cup { [operator |-> "cast_type",
            params |-> [column |-> c, target_type |-> "INTEGER"]] :
             c \in ColumnNames }
    \cup { [operator |-> "deduplicate_rows", params |-> [columns |-> cs]] :
             cs \in { << >>, << "A" >>, << "B" >>, << "A", "B" >> } }
    \cup { [operator |-> "pivot", params |-> NoParams] }

\* relations with the one text column A of numeric strings, and relations
\* with an integer column A and a text column B
TextRows == { << "1" >>, << "2" >> }
PairRows == { << a, b >> : a \in { 1, 2 }, b \in { "x", "y" } }

\* merge_columns steps over the columns A and B, with and without a
\* separator, over relations with two text columns in which a value may be
\* NULL, or with an integer column A and a text column B
MergeSteps ==
    { [operator |-> "merge_columns",
       params |-> [columns |-> cs, separator |-> sep, new_name |-> "C"]] :
          cs \in { << "A" >>, << "A", "B" >>, << "B", "A" >> },
          sep \in { ",", "" } }
    \cup { [operator |-> "merge_columns",
            params |-> [columns |-> << "A", "B" >>, new_name |-> "C"]] }

NullableRows == { << a, b >> : a \in { "1", Null }, b \in { "x", Null } }

InitExport ==
    /\ \/ /\ steps \in SeqsUpTo(FollowedSteps, 2)
          /\ \/ \E rows \in SeqsUpTo(TextRows, MaxRows) :
                   views = << Relation(<< "A" >>, << "VARCHAR" >>, rows) >>
             \/ \E rows \in SeqsUpTo(PairRows, MaxRows) :
                   views = << Relation(<< "A", "B" >>,
                                 << "BIGINT", "VARCHAR" >>, rows) >>
       \/ /\ \E step \in AnySteps : steps = << step >>
          /\ \E rows \in SeqsUpTo(TextRows, 1) :
                views = << Relation(<< "A" >>, << "VARCHAR" >>, rows) >>
       \/ /\ \E step \in MergeSteps : steps = << step >>
          /\ \/ \E rows \in SeqsUpTo(NullableRows, MaxRows) :
                   views = << Relation(<< "A", "B" >>,
                                 << "VARCHAR", "VARCHAR" >>, rows) >>
             \/ \E rows \in SeqsUpTo(PairRows, 1) :
                   views = << Relation(<< "A", "B" >>,
                                 << "BIGINT", "VARCHAR" >>, rows) >>
    /\ step_no = 0
    /\ statements = << >>
    /\ export_pc = "steps"
    /\ export_error = NoError
    /\ exported = NoRelation
    /\ nodes = << >>
    /\ edges = << >>
    /\ RunCreated
    /\ task = NoTask
    /\ task_error = NoError
    /\ published = << >>
    /\ other = NoPeer

\* _input, _step_0, _step_1, ...
ViewName(i) == IF i = 0 THEN "_input" ELSE "_step_" \o ToString(i - 1)

\* lines 178-180: _step_to_sql raises
CompileRaises ==
    /\ export_pc = "steps"
    /\ step_no < Len(steps)
    /\ LET c == _step_to_sql(steps[step_no + 1], ViewName(step_no))
       IN  /\ c.raised # NoError
           /\ statements' = Append(statements, c)
           /\ export_error' = c.raised
    /\ export_pc' = "raised"
    /\ UNCHANGED << engine_vars, task_vars, other, steps, step_no, views,
                    exported >>

\* lines 178-182: the step's statement becomes the next view
CreateView ==
    /\ export_pc = "steps"
    /\ step_no < Len(steps)
    /\ LET c == _step_to_sql(steps[step_no + 1], ViewName(step_no))
       IN  /\ c.raised = NoError
           /\ statements' = Append(statements, c)
           /\ LET r == Execute(c.sql, views[Len(views)])
              IN  IF r.error = NoError
                  THEN /\ views' = Append(views, r.rel)
                       /\ step_no' = step_no + 1
                       /\ UNCHANGED << export_pc, export_error >>
                  ELSE /\ export_error' = r.error
                       /\ export_pc' = "raised"
                       /\ UNCHANGED << views, step_no >>
    /\ UNCHANGED << engine_vars, task_vars, other, steps, exported >>

\* lines 184-193: COPY of the last view to output_path
CopyToFile ==
    /\ export_pc = "steps"
    /\ step_no = Len(steps)
    /\ exported' = views[Len(views)]
    /\ export_pc' = "returned"
    /\ UNCHANGED << engine_vars, task_vars, other, steps, step_no, views,
                    statements, export_error >>

NextExport == CompileRaises \/ CreateView \/ CopyToFile

SpecExport == InitExport /\ [][NextExport]_vars

\* ------------------------------------------------- vocabulary of the claims
UniqueNodeIds ==
    \A i, j \in 1 .. Len(nodes) : nodes[i].id = nodes[j].id => i = j

EdgesReferenceNodes ==
    \A k \in 1 .. Len(edges) :
        edges[k][1] \in Ids(nodes) /\ edges[k][2] \in Ids(nodes)

EdgeTargets(S) ==
    { edges[k][2] : k \in { j \in 1 .. Len(edges) : edges[j][1] \in S } }

\* the ids reached from S along 1 .. k edges
RECURSIVE ReachedIn(_, _)
ReachedIn(S, k) ==
    IF k = 0 THEN {} ELSE EdgeTargets(S) \cup ReachedIn(EdgeTargets(S), k - 1)

HasCycle ==
    \E k \in 1 .. Len(edges) : edges[k][1] \in ReachedIn({ edges[k][1] }, Len(edges))

Returned == pc = "returned"
Ended == pc \in { "returned", "raised" }

CallsOf(nid) == { k \in 1 .. Len(calls) : calls[k].node = nid }
LogsOf(nid) == { k \in 1 .. Len(node_logs) : node_logs[k].node_id = nid }

\* ---------------------------------------------------------------------- C1
\* C1: on a graph with unique node ids, edges between existing nodes and no
\* cycle, a handler is invoked only after a handler invocation of every
\* node with an edge into its node has returned, the invocations of one
\* node are consecutive, and a run that ends in success has made exactly
\* one node record for every node.
C1_TopologicalSoundness ==
    (UniqueNodeIds /\ EdgesReferenceNodes /\ ~HasCycle) =>
        /\ \A k \in 1 .. Len(calls) : \A e \in 1 .. Len(edges) :
              edges[e][2] = calls[k].node =>
                  \E j \in 1 .. k - 1 :
                      calls[j].node = edges[e][1] /\ calls[j].ok
        /\ \A j, k \in 1 .. Len(calls) :
              (j < k /\ calls[j].node = calls[k].node) =>
                  calls[k - 1].node = calls[k].node
        /\ (Returned /\ result = "success") =>
              /\ Len(node_logs) = Len(nodes)
              /\ \A i \in 1 .. Len(nodes) :
                    /\ Cardinality(LogsOf(nodes[i].id)) = 1
                    /\ \E k \in CallsOf(nodes[i].id) : calls[k].ok

\* a successful run of a two-node graph whose edge runs from the second
\* node of the list to the first, with a retried attempt on the way
C1_Witness ==
    /\ UniqueNodeIds /\ EdgesReferenceNodes /\ ~HasCycle
    /\ Len(nodes) = 2
    /\ edges = << << 2, 1 >> >>
    /\ Returned /\ result = "success"
    /\ \E k \in 1 .. Len(calls) : ~calls[k].ok

\* ---------------------------------------------------------------------- C2
\* C2: on a graph whose edges contain a cycle, execute ends with the run
\* failed, without a handler invocation and without a node record.
C2_CycleFailsRun ==
    (HasCycle /\ Returned) =>
        /\ status = "failed"
        /\ calls = << >>
        /\ node_logs = << >>

\* ---------------------------------------------------------------------- C3
\* C3: when execute has returned, no file that a handler attempt of the
\* invocation created is left on disk.
C3_NoScratchFileRemains ==
    Returned => created \cap disk = {}

\* ---------------------------------------------------------------------- C4
\* C4: when an invocation of execute for an existing run record has ended,
\* by returning or by raising, the run's status is success or failed and
\* the engine has written a terminal status exactly once.
TerminalWrites ==
    { k \in 1 .. Len(writes) : writes[k][2] \in { "success", "failed" } }

C4_OneTerminalStatus ==
    Ended =>
        /\ status \in { "success", "failed" }
        /\ Cardinality(TerminalWrites) = 1

\* ---------------------------------------------------------------------- C5
\* C5: when a node's handler has raised on attempts 1 and 2 and returned on
\* attempt 3 and the run has ended in success, the run's status is success
\* and the node has exactly 3 node records, with attempt numbers 1, 2, 3.
FailedTwiceThenSucceeded(nid) ==
    \E k \in 1 .. Len(calls) - 2 :
        /\ calls[k].node = nid /\ calls[k].attempt = 1 /\ ~calls[k].ok
        /\ calls[k + 1].node = nid /\ calls[k + 1].attempt = 2 /\ ~calls[k + 1].ok
        /\ calls[k + 2].node = nid /\ calls[k + 2].attempt = 3 /\ calls[k + 2].ok

C5_ThreeRecordsAfterTwoFailures ==
    \A nid \in Ids(nodes) :
        (Returned /\ result = "success" /\ FailedTwiceThenSucceeded(nid)) =>
            /\ status = "success"
            /\ Cardinality(LogsOf(nid)) = 3
            /\ { node_logs[k].attempt_no : k \in LogsOf(nid) } = { 1, 2, 3 }

\* ---------------------------------------------------------------------- C6
\* C6: no handler invocation has an attempt number above 3; an invocation
\* with attempt number a > 1 directly follows an invocation of the same
\* node that raised on attempt a - 1, and a first attempt follows no
\* invocation of its node (so a node is invoked at most 3 times and never
\* after it returned); a node record is marked failed only when the third
\* attempt raised, and then carries that attempt's error text.
C6_AtMostThreeAttempts ==
    /\ \A k \in 1 .. Len(calls) :
          /\ calls[k].attempt \in 1 .. 3
          /\ calls[k].attempt = 1 =>
                \A j \in 1 .. k - 1 : calls[j].node # calls[k].node
          /\ calls[k].attempt > 1 =>
                /\ k > 1
                /\ calls[k - 1].node = calls[k].node
                /\ calls[k - 1].attempt = calls[k].attempt - 1
                /\ ~calls[k - 1].ok
    /\ \A nid \in Ids(nodes) : Cardinality(CallsOf(nid)) <= 3
    /\ \A i \in 1 .. Len(node_logs) :
          node_logs[i].status = "failed" =>
              /\ calls # << >>
              /\ calls[Len(calls)].node = node_logs[i].node_id
              /\ calls[Len(calls)].attempt = 3
              /\ ~calls[Len(calls)].ok
              /\ node_logs[i].log_text = calls[Len(calls)].err
    /\ (pc \in { "finally", "returned" } /\ calls # << >>
           /\ calls[Len(calls)].attempt = 3 /\ ~calls[Len(calls)].ok) =>
          node_logs[Len(node_logs)].status = "failed"

\* a node has failed on a third attempt whose error differs from the error
\* of its first attempt
C6_Witness ==
    /\ Returned
    /\ Len(calls) >= 3
    /\ calls[Len(calls)].attempt = 3
    /\ ~calls[Len(calls)].ok
    /\ calls[Len(calls) - 2].err # calls[Len(calls)].err
    /\ node_logs[Len(node_logs)].status = "failed"

\* ---------------------------------------------------------------------- C7
\* C7: a node record marked failed is the last node record, the last
\* handler invocation is the failed node's, and once the except block has
\* run the run's status is failed and its error message holds the failed
\* node's id and the error text of its last attempt.
C7_FailFast ==
    \A i \in 1 .. Len(node_logs) :
        node_logs[i].status = "failed" =>
            /\ i = Len(node_logs)
            /\ calls[Len(calls)].node = node_logs[i].node_id
            /\ pc \in { "finally", "returned" } =>
                  /\ status = "failed"
                  /\ error_message =
                        << node_logs[i].node_id, calls[Len(calls)].err >>

\* the first node of a two-node order has failed and execute has returned
C7_Witness ==
    /\ Returned
    /\ Len(order) = 2
    /\ Len(node_logs) = 1
    /\ node_logs[1].status = "failed"

\* ---------------------------------------------------------------------- C8
\* C8: a handler attempt that raises for want of an upstream input is its
\* node's only attempt and the run's last handler invocation, and no sleep
\* follows it.
MissingInputErrors ==
    { "Transform node has no inputs", "Validation node has no inputs",
      "File output node has no inputs", "Merge needs at least 1 input" }

SleepsDue ==
    { k \in 1 .. Len(calls) :
          /\ ~calls[k].ok
          /\ calls[k].err \notin MissingInputErrors
          /\ calls[k].attempt < 3 }

C8_MissingInputNoRetry ==
    (\E k \in 1 .. Len(calls) : calls[k].err \in MissingInputErrors) =>
        /\ \A k \in 1 .. Len(calls) :
              calls[k].err \in MissingInputErrors =>
                  calls[k].attempt = 1 /\ k = Len(calls)
        /\ Len(sleeps) = Cardinality(SleepsDue)

\* ---------------------------------------------------------------------- C9
\* C9: a validation node whose score is below its min_score raises on every
\* attempt; once its run has left the retry loop it has been attempted 3
\* times, its node record is failed, it has no entry in node_outputs, and
\* after the except block the run is failed with the node's id in the
\* error message.  A validation attempt that computes a score of at least
\* min_score returns, and the node's entry in node_outputs is then its
\* first upstream path; it raises "below minimum" only for a lower score.
ScoreNotComputed ==
    { "Validation node has no inputs", "data_quality_score failed" }

C9_QualityGate ==
    \A k \in 1 .. Len(calls) :
        LET node == node_map(nodes, calls[k].node)
        IN  node.type = "validation" =>
              /\ node.score < node.min_score =>
                    /\ ~calls[k].ok
                    /\ node_outputs[node.id] = Unset
                    /\ pc \in { "except", "finally", "returned" } =>
                          /\ Cardinality(CallsOf(node.id)) = 3
                          /\ node_logs[Len(node_logs)].node_id = node.id
                          /\ node_logs[Len(node_logs)].status = "failed"
                    /\ pc \in { "finally", "returned" } =>
                          /\ status = "failed"
                          /\ error_message[1] = node.id
              /\ node.score >= node.min_score =>
                    /\ ~calls[k].ok => calls[k].err \in ScoreNotComputed
                    /\ calls[k].ok =>
                          /\ _get_input_files(node.id, edges, node_outputs) # << >>
                          /\ node_outputs[node.id] =
                                _get_input_files(node.id, edges, node_outputs)[1]

\* a validation node with min_score 90 has failed on a score of 40, three
\* times for the score itself
C9_Witness ==
    /\ Returned
    /\ status = "failed"
    /\ Len(nodes) = 2
    /\ nodes[2].type = "validation"
    /\ nodes[2].min_score = 90
    /\ nodes[2].score = 40
    /\ Len(calls) >= 3
    /\ \A k \in Len(calls) - 2 .. Len(calls) :
          calls[k].node = 2 /\ calls[k].err = "Quality score below minimum"

\* a validation node with min_score 90 has passed on a score of 90 and
\* handed on the path of the file it read
C9_WitnessPass ==
    /\ Returned
    /\ Len(nodes) = 2
    /\ nodes[2].type = "validation"
    /\ nodes[2].min_score = 90
    /\ nodes[2].score = 90
    /\ node_outputs[2] # Unset
    /\ node_outputs[2] = node_outputs[1]

\* --------------------------------------------------------------------- C10
\* C10 as stated: every write of the run status by the engine changes
\* pending to running, running to success or running to failed.
LifecycleChanges ==
    { << "pending", "running" >>, << "running", "success" >>,
      << "running", "failed" >> }

C10_OnlyLifecycleChanges ==
    \A k \in 1 .. Len(writes) : writes[k] \in LifecycleChanges

\* C10 as amended: the engine writes the run status at most twice, first
\* running and then success or failed, over whatever status it finds; it
\* never writes cancelled or pending; and as long as no external actor has
\* changed the status, its writes are the changes pending to running,
\* running to success and running to failed.
C10_EngineWrites ==
    /\ Len(writes) <= 2
    /\ \A k \in 1 .. Len(writes) :
          /\ k = 1 => writes[k][2] = "running"
          /\ k = 2 => writes[k][2] \in { "success", "failed" }
    /\ ~external => \A k \in 1 .. Len(writes) : writes[k] \in LifecycleChanges
    /\ (pc \in { "finally", "returned" } /\ ~external) =>
          (Len(writes) = 2 /\ status = writes[2][2])

\* the engine has overwritten a status that an external actor had set to
\* cancelled, at entry and again at exit
C10_Witness ==
    /\ Returned
    /\ external
    /\ Len(writes) = 2
    /\ writes[1][1] = "cancelled"
    /\ writes[2][1] = "cancelled"

\* --------------------------------------------------------------------- C11
\* C11: on a graph with an edge whose source or target is the id of no node,
\* no handler is invoked and no node record is created, and when execute
\* has returned the run is failed.
C11_DanglingEdgeFailsRun ==
    ~EdgesReferenceNodes =>
        /\ calls = << >>
        /\ node_logs = << >>
        /\ Returned => status = "failed"

\* --------------------------------------------------------------------- C12
\* C12: when the attempts of a node of an unrecognised type are over, the
\* node has succeeded with row count 0 and, if it has an upstream path, its
\* own entry of _node_outputs is its first upstream path (which is what a
\* node downstream of it resolves as its input).
C12_UnknownTypeForwards ==
    (pc = "after_retries" /\ order[pos].type = "unknown") =>
        LET input_files == _get_input_files(order[pos].id, edges, node_outputs)
        IN  /\ success
            /\ node_logs[Len(node_logs)].rows_out = 0
            /\ input_files # << >> =>
                   node_outputs[order[pos].id] = input_files[1]

\* --------------------------------------------------------------------- C13
\* C13: a handler attempt to which the export adapter returned a result
\* with success = False is a failed attempt.
C13_AdapterFailureFailsAttempt ==
    \A k \in 1 .. Len(calls) : calls[k].report = "failure" => ~calls[k].ok

\* --------------------------------------------------------------------- C14
\* C14: between the operations of a run no analytical-engine session is
\* open: every session a handler attempt opened was closed by the time the
\* attempt returned or raised.
C14_SessionsClosed == sessions = 0

\* --------------------------------------------------------------------- C15
\* C15: the task of a run that execute has finished (execute returned its
\* result) does not end by raising, whatever happens to the publishing of
\* the completion event.  (The task's own steps write none of the run's
\* status, error message and rows-processed.)
C15_PublishFailureHarmless ==
    pc = "returned" => task # "raised"

\* --------------------------------------------------------------------- C19
\* C19: of two invocations of execute that run concurrently, no step of one
\* removes from the disk a file that the other, still under way, produced
\* or holds in its _node_outputs as an input of its nodes to come.
PeerFiles ==
    IF other.pc \in { NoPeer.pc, "returned", "raised" } THEN {}
    ELSE other.created \cup Registered(other.node_outputs)

C19_CleanupSparesPeer ==
    [][(disk \ disk') \cap PeerFiles = {}]_vars

\* --------------------------------------------------------------------- C16
\* C16: _step_to_sql gives a statement for every step: it never raises.
C16_StepCompilerTotal ==
    \A k \in 1 .. Len(statements) : statements[k].raised = NoError

\* --------------------------------------------------------------------- C17
\* C17: the view of a deduplicate_rows step with a non-empty column list
\* has exactly one row for every combination of values that the rows of
\* its source view have in those columns.
KeyOf(rel, row, columns) ==
    [c \in 1 .. Len(columns) |-> row[Position(rel, Quoted(columns[c]))]]

KeysOf(rel, columns) ==
    { KeyOf(rel, rel.rows[r], columns) : r \in 1 .. Len(rel.rows) }

DeduplicatedBy(k) ==
    /\ k < Len(views)
    /\ Get(steps[k], "operator", "") = "deduplicate_rows"
    /\ Get(Get(steps[k], "params", NoParams), "columns", << >>) # << >>

RenameThenCast ==
    /\ steps = << [operator |-> "rename_column",
                   params |-> [from_name |-> "A", to_name |-> "B"]],
                  [operator |-> "cast_type",
                   params |-> [column |-> "B", target_type |-> "INTEGER"]] >>
    /\ views[1].columns = << "A" >>

C18_RenameThenCast ==
    (RenameThenCast /\ export_pc \in { "returned", "raised" }) =>
        /\ export_pc = "returned"
        /\ exported.columns = << "B" >>
        /\ exported.types = << "INTEGER" >>
        /\ Len(exported.rows) = Len(views[1].rows)

\* --------------------------------------------------------------------- C20
\* C20: for a step whose operator is none of the recognised operators,
\* whatever its params, _step_to_sql gives exactly the identity selection
\* SELECT * FROM <source view>.
Unrecognised(k) == Get(steps[k], "operator", "") \notin Operators

C20_UnknownOperatorIdentity ==
    \A k \in 1 .. Len(statements) :
        Unrecognised(k) =>
            statements[k] = Compiled(<< "SELECT * FROM", ViewName(k - 1) >>)

\* an unrecognised operator compiled over _step_0, and one with params
C20_Witness ==
    \/ /\ Len(statements) = 2
       /\ Unrecognised(2)
       /\ statements[2].sql[2] = "_step_0"
    \/ /\ Len(statements) = 1
       /\ Unrecognised(1)
       /\ DOMAIN Get(steps[1], "params", NoParams) # {}

\* --------------------------------------------------------------------- C21
\* C21: on a graph in which two nodes share an id, no handler is invoked and
\* no node record is created, and when execute has returned the run is
\* failed.
C21_DuplicateIdFailsRun ==
    ~UniqueNodeIds =>
        /\ calls = << >>
        /\ node_logs = << >>
        /\ Returned => status = "failed"

\* --------------------------------------------------------------------- C22
\* C22: the engine sleeps once after each failed first or second attempt
\* of a node, for 2 time units after a first attempt and 4 after a second,
\* and at no other time: not after a failed third attempt and not after an
\* attempt that returned.
FailedBeforeLast ==
    SelectSeq(calls, LAMBDA c : ~c.ok /\ c.attempt \in { 1, 2 })

C22_LinearBackoff ==
    /\ Len(sleeps) = Len(FailedBeforeLast)
    /\ \A i \in 1 .. Len(sleeps) : sleeps[i] = 2 * FailedBeforeLast[i].attempt
    /\ \A i \in 1 .. Len(sleeps) : sleeps[i] \in { 2, 4 }

\* a node has failed three times: two sleeps, of 2 and of 4, and none after
\* the third failure
C22_Witness ==
    /\ Returned
    /\ Len(calls) = 3
    /\ \A k \in 1 .. 3 : ~calls[k].ok /\ calls[k].attempt = k
    /\ sleeps = << 2, 4 >>

\* a node has failed once and then returned: one sleep of 2, none after the
\* attempt that returned
C22_WitnessSuccess ==
    /\ Returned
    /\ Len(calls) = 2
    /\ ~calls[1].ok /\ calls[2].ok
    /\ sleeps = << 2 >>

\* --------------------------------------------------------------------- C23
\* C23: a node's record exists before its first handler attempt, and once
\* the record is success or failed its attempt number is the number of
\* handler attempts made for the node.
C23_AttemptNumberIsAttemptsMade ==
    /\ \A k \in 1 .. Len(calls) : LogsOf(calls[k].node) # {}
    /\ \A i \in 1 .. Len(node_logs) :
          node_logs[i].status \in { "success", "failed" } =>
              node_logs[i].attempt_no =
                  Cardinality(CallsOf(node_logs[i].node_id))

\* --------------------------------------------------------------------- C24
\* C24: a handler attempt after the first is given the same list of
\* upstream paths as the attempt before it, and an attempt that raises
\* leaves the entry of every other node in _node_outputs as it was.
C24_RetrySameInputs ==
    [][calls' # calls =>
          LET c == calls'[Len(calls')]
          IN  /\ c.attempt > 1 =>
                    /\ calls[Len(calls)].node = c.node
                    /\ calls[Len(calls)].inputs = c.inputs
              /\ ~c.ok =>
                    \A nid \in DOMAIN node_outputs \ { c.node } :
                        node_outputs'[nid] = node_outputs[nid]]_vars

\* a node with an upstream path has been attempted three times, and its
\* own entry in _node_outputs was set by a failed attempt
C24_Witness ==
    /\ Len(calls) >= 3
    /\ calls[Len(calls)].attempt = 3
    /\ calls[Len(calls)].inputs # << >>
    /\ node_outputs[calls[Len(calls)].node] # Unset
    /\ ~calls[Len(calls)].ok

\* --------------------------------------------------------------------- C25
\* the edges into the node nid, in edge-list order
EdgesInto(nid) == SelectSeq(edges, LAMBDA e : e[2] = nid)

\* those of them whose source has an entry in _node_outputs
EdgesFromRegistered(nid) ==
    SelectSeq(edges, LAMBDA e :
        /\ e[2] = nid
        /\ e[1] \in DOMAIN node_outputs
        /\ node_outputs[e[1]] # Unset)

\* C25 as stated: the list of upstream paths given to a handler attempt has
\* one path for each edge into the node, in edge-list order: the entry of
\* the edge's source in _node_outputs.
C25_OnePathPerEdge ==
    [][calls' # calls =>
          LET c == calls'[Len(calls')]
              into == EdgesInto(c.node)
          IN  /\ Len(c.inputs) = Len(into)
              /\ \A i \in 1 .. Len(into) :
                    /\ into[i][1] \in DOMAIN node_outputs
                    /\ node_outputs[into[i][1]] # Unset
                    /\ c.inputs[i] = node_outputs[into[i][1]]]_vars

\* C25 as amended: the list has one path for each edge into the node whose
\* source has an entry in _node_outputs, in edge-list order; an edge whose
\* source has no entry is passed over, so the first upstream path is the
\* entry of the source of the earliest edge that has one.
C25_OnePathPerRegisteredEdge ==
    [][calls' # calls =>
          LET c == calls'[Len(calls')]
              into == EdgesFromRegistered(c.node)
          IN  /\ Len(c.inputs) = Len(into)
              /\ \A i \in 1 .. Len(into) :
                    c.inputs[i] = node_outputs[into[i][1]]
              /\ into # << >> =>
                    FirstOrEmpty(c.inputs) = node_outputs[into[1][1]]]_vars

\* a node with edges from node 2 and then from node 1 was given the two
\* different paths of these nodes, in that order
C25_Witness ==
    /\ edges = << << 2, 3 >>, << 1, 3 >> >>
    /\ calls # << >>
    /\ calls[Len(calls)].node = 3
    /\ node_outputs[1] # node_outputs[2]
    /\ calls[Len(calls)].inputs = << node_outputs[2], node_outputs[1] >>

\* a node with edges from nodes 1 and 2 was given the path of node 2 only,
\* node 1 having returned without an entry in _node_outputs
C25_WitnessPassedOver ==
    /\ edges = << << 1, 3 >>, << 2, 3 >> >>
    /\ calls # << >>
    /\ calls[Len(calls)].node = 3
    /\ node_outputs[1] = Unset
    /\ node_outputs[2] # Unset
    /\ calls[Len(calls)].inputs = << node_outputs[2] >>

\* --------------------------------------------------------------------- C26
\* the sum of the row counts of the handler attempts cs that returned
RECURSIVE RowsReturned(_)
RowsReturned(cs) ==
    IF cs = << >> THEN 0
    ELSE (IF Head(cs).ok THEN Head(cs).rows ELSE 0) + RowsReturned(Tail(cs))

\* C26: when a run has ended in success, its rows_processed is the sum of
\* the row counts that the nodes' returning attempts gave, every node of
\* the order having exactly one such attempt and the attempts that raised
\* counting for nothing; on a graph with unique node ids, edges between
\* existing nodes and no cycle, the nodes of the order are all the nodes of
\* the graph.
C26_RowsProcessedIsSum ==
    (pc \in { "finally", "returned" } /\ result = "success") =>
        /\ rows_processed = RowsReturned(calls)
        /\ \A i \in 1 .. Len(order) :
              Cardinality({ k \in CallsOf(order[i].id) : calls[k].ok }) = 1
        /\ \A k \in 1 .. Len(calls) : ~calls[k].ok => calls[k].rows = 0
        /\ (UniqueNodeIds /\ EdgesReferenceNodes /\ ~HasCycle) =>
              \A i \in 1 .. Len(nodes) :
                  Cardinality({ k \in CallsOf(nodes[i].id) : calls[k].ok }) = 1

\* a successful run of two nodes that each gave one row, the second after a
\* failed attempt
C26_Witness ==
    /\ Returned /\ result = "success"
    /\ rows_processed = 2
    /\ Len(order) = 2
    /\ \E k \in 1 .. Len(calls) : ~calls[k].ok /\ calls[k].node = 2

\* --------------------------------------------------------------------- C27
\* the texts ts joined with sep between consecutive texts
RECURSIVE Joined(_, _)
Joined(ts, sep) ==
    IF ts = << >> THEN ""
    ELSE IF Len(ts) = 1 THEN ts[1]
    ELSE ts[1] \o sep \o Joined(Tail(ts), sep)

MergedBy(k) ==
    /\ k < Len(views)
    /\ Get(steps[k], "operator", "") = "merge_columns"

\* C27: the view of a merge_columns step has the columns of its source view
\* and one more, named new_name, whose value in every row is the values of
\* the listed columns in order, a NULL taken as the empty text, joined with
\* the separator between consecutive values.
C27_MergeJoinsWithSeparator ==
    \A k \in 1 .. Len(steps) :
        MergedBy(k) =>
            LET params == steps[k].params
                sep == Get(params, "separator", " ")
                src == views[k]
                out == views[k + 1]
            IN  /\ out.columns = Append(src.columns, params.new_name)
                /\ Len(out.rows) = Len(src.rows)
                /\ \A r \in 1 .. Len(src.rows) :
                      out.rows[r] = Append(src.rows[r],
                          Joined([c \in 1 .. Len(params.columns) |->
                                     LET p == Position(src, Quoted(params.columns[c]))
                                     IN  CoalescedText(src.rows[r][p], src.types[p])],
                                 sep))

\* --------------------------------------------------------------------- C28
\* C28: no step of execute removes from the disk a file that the handler
\* attempts of the invocation did not create, so the file at SourcePath,
\* which exists when execute is entered, exists when execute has returned.
C28_CleanupSparesEarlierFiles ==
    SourcePath \notin created => SourcePath \in disk

\* --------------------------------------------------------------------- C29
\* C29: every path in the list of upstream paths given to a handler attempt
\* is not the empty path, and is the entry in _node_outputs of the source
\* of an edge into the node, a handler attempt of which has returned
\* before.
C29_InputsAreRegisteredPaths ==
    \A k \in 1 .. Len(calls) : \A i \in 1 .. Len(calls[k].inputs) :
        /\ calls[k].inputs[i] # EmptyPath
        /\ \E e \in 1 .. Len(edges) :
              /\ edges[e][2] = calls[k].node
              /\ edges[e][1] \in DOMAIN node_outputs
              /\ node_outputs[edges[e][1]] = calls[k].inputs[i]
              /\ \E j \in 1 .. k - 1 :
                    calls[j].node = edges[e][1] /\ calls[j].ok

\* --------------------------------------------------------------------- C30
\* C30: every status the task has published for the run is the status of
\* the run record (which no step changes once execute has ended, and the
\* task publishes only then).
C30_PublishedStatusIsRunStatus ==
    \A k \in 1 .. Len(published) : published[k] = status

====
